---- MODULE Spec2Model ----
(***************************************************************************)
(* Conversation store (src/src/database.rs) and the chat routes            *)
(* (src/src/routes/responses.rs) of llama-nexus, as a state machine.       *)
(*                                                                         *)
(* A text is a sequence of tokens; the two tokens "User: " and "Bot: "     *)
(* stand for those literal substrings, so that format!("User: {}", m) is   *)
(* concatenation and strip_prefix("User: ") removes one leading token.     *)
(* An Option is a sequence of length 0 (None) or 1 (Some).                 *)
(***************************************************************************)
EXTENDS Integers, Sequences, FiniteSets, TLC

VARIABLES
    database,        \* ChatStorage.database is Some(DatabaseManager)
    chat_messages,   \* rows of table chat_messages, in rowid order
    next_id,         \* the next AUTOINCREMENT value of chat_messages.id
    memory_fallback, \* ChatStorage.memory_fallback: session id -> lines
    now,             \* the last value Utc::now() returned
    req,             \* the handle_response calls in flight, one per slot
    started,         \* how many handle_response calls were started
    response,        \* the last response of a single-step route
    recorded         \* per session, the turns stored since its last delete,
                     \* in the order the store took them (history variable)

vars == <<database, chat_messages, next_id, memory_fallback, now, req,
          started, response, recorded>>

-----------------------------------------------------------------------------
(* Bounds and input sets *)

MaxSubmits == 2

MaxPairs == 3

MaxHeaderLen == 2

MaxLines == 3

Sessions == {"s1", "s2"}

Slots == {"r1", "r2"}

\* The session ids a history is asked for: those of the requests, and the
\* empty string, which no request uses.
ReadSessions == Sessions \cup {""}

UserPrefix == "User: "

BotPrefix == "Bot: "

UserMessages == {<<"hi">>, <<UserPrefix, "hi">>}

ExplicitModels == {"m1"}

None == <<>>

Some(x) == <<x>>

-----------------------------------------------------------------------------
(* JSON values of serde_json::Value, tagged by their kind *)

JNull == [t |-> "null"]

JStr(s) == [t |-> "str", s |-> s]

JArr(e) == [t |-> "arr", e |-> e]

JObj(f) == [t |-> "obj", f |-> f]

\* Value::get(key) on an object: Some(member) or None.
JGet(v, key) ==
    IF v.t = "obj" /\ key \in DOMAIN v.f THEN Some(v.f[key]) ELSE None

\* Value::get(0) on an array: Some(first element) or None.
JGet0(v) ==
    IF v.t = "arr" /\ Len(v.e) >= 1 THEN Some(v.e[1]) ELSE None

\* Value::as_str.
JAsStr(v) == IF v.t = "str" THEN Some(v.s) ELSE None

\* .and_then(|c| c.get(key))
and_then_get(o, key) == IF o = None THEN None ELSE JGet(o[1], key)

\* .and_then(|c| c.get(0))
and_then_get0(o) == IF o = None THEN None ELSE JGet0(o[1])

\* .and_then(|c| c.as_str())
and_then_as_str(o) == IF o = None THEN None ELSE JAsStr(o[1])

NoContent == <<"(no content)">>

\* responses.rs lines 112-117: choices[0].message.content as a string.
extract_content(value) ==
    and_then_as_str(
        and_then_get(
            and_then_get(and_then_get0(JGet(value, "choices")), "message"),
            "content"))

\* responses.rs lines 118-119: unwrap_or("(no content)")
reply_or_placeholder(content) ==
    IF content = None THEN NoContent ELSE content[1]

-----------------------------------------------------------------------------
(* DatabaseManager: the table chat_messages *)

\* lines 9-16: ChatMessage. The id is None until the row is inserted.
ChatMessage(id, session_id, user_message, bot_reply, timestamp) ==
    [id |-> id, session_id |-> session_id, user_message |-> user_message,
     bot_reply |-> bot_reply, timestamp |-> timestamp]

\* The INSERT, were user_message and bot_reply bound in each other's place.
save_message_swapped(table, id, message) ==
    Append(table, [message EXCEPT !.id = Some(id),
                                  !.user_message = message.bot_reply,
                                  !.bot_reply = message.user_message])

\* lines 64-79: INSERT; the table assigns the AUTOINCREMENT id.
save_message(table, id, message) ==
    Append(table, [message EXCEPT !.id = Some(id)])

\* WHERE session_id = ?, in rowid order.
WhereSession(table, session_id) ==
    SelectSeq(table, LAMBDA m : m.session_id = session_id)

\* ORDER BY timestamp ASC, and nothing else: every arrangement of the rows
\* with non-decreasing timestamps is a result the engine may return; rows
\* with equal timestamps come in an order the statement does not fix.
OrderByTimestamp(rows) ==
    LET n == Len(rows)
        perms == {p \in [1..n -> 1..n] :
                    /\ \A i, j \in 1..n : p[i] = p[j] => i = j
                    /\ \A i \in 1..(n - 1) :
                         rows[p[i]].timestamp <= rows[p[i + 1]].timestamp}
    IN  {[i \in 1..n |-> rows[p[i]]] : p \in perms}

\* lines 81-106: the results get_session_history may return when it succeeds.
get_session_history(table, session_id) ==
    OrderByTimestamp(WhereSession(table, session_id))

\* The DELETE, were its WHERE clause missing.
delete_all_history(table, session_id) == <<>>

\* lines 108-115: DELETE FROM chat_messages WHERE session_id = ?
delete_session_history(table, session_id) ==
    SelectSeq(table, LAMBDA m : m.session_id # session_id)

\* The SELECT, were it to stop at the first row.
db_get_first_session(table) ==
    IF table = <<>> THEN {} ELSE {table[1].session_id}

\* lines 117-128: SELECT DISTINCT session_id (a list in no fixed order and
\* without repetition: a set).
db_get_all_sessions(table) ==
    {table[i].session_id : i \in 1..Len(table)}

-----------------------------------------------------------------------------
(* ChatStorage *)

\* format!("User: {}", user_message) and format!("Bot: {}", bot_reply)
FormatUser(user_message) == <<UserPrefix>> \o user_message

FormatBot(bot_reply) == <<BotPrefix>> \o bot_reply

\* str::strip_prefix(prefix).unwrap_or(line)
StripPrefix(line, prefix) ==
    IF Len(line) >= 1 /\ line[1] = prefix THEN Tail(line) ELSE line

\* HashMap::get(session_id).cloned().unwrap_or_default()
LinesOf(map, session_id) ==
    IF session_id \in DOMAIN map THEN map[session_id] ELSE <<>>

\* The map after a read, were the read made with entry(session_id)
\* .or_default() instead of get(session_id).
memory_after_entry(map, session_id) ==
    [k \in DOMAIN map \cup {session_id} |-> LinesOf(map, k)]

\* lines 191 and 202: the map after history.get(session_id), which borrows
\* the map and inserts nothing.
memory_after_get(map, session_id) == map

\* The pushes, were the lock released between them: the user line is in
\* place before the lines pushed meanwhile, the bot line after them.
memory_push_apart(map, session_id, user_message, bot_reply) ==
    [k \in DOMAIN map \cup {session_id} |->
        IF k = session_id
        THEN <<FormatUser(user_message)>> \o LinesOf(map, session_id)
                 \o <<FormatBot(bot_reply)>>
        ELSE map[k]]

\* The pushes, were the session's entry replaced instead of extended.
memory_push_replacing(map, session_id, user_message, bot_reply) ==
    [k \in DOMAIN map \cup {session_id} |->
        IF k = session_id
        THEN <<FormatUser(user_message), FormatBot(bot_reply)>>
        ELSE map[k]]

\* The pushes, were the bot line left out.
memory_push_user_only(map, session_id, user_message, bot_reply) ==
    [k \in DOMAIN map \cup {session_id} |->
        IF k = session_id
        THEN Append(LinesOf(map, session_id), FormatUser(user_message))
        ELSE map[k]]

\* lines 168-171: entry(session_id).or_default(), then the two pushes.
memory_push(map, session_id, user_message, bot_reply) ==
    [k \in DOMAIN map \cup {session_id} |->
        IF k = session_id
        THEN LinesOf(map, session_id)
                 \o <<FormatUser(user_message), FormatBot(bot_reply)>>
        ELSE map[k]]

\* The removal, were the session's lines cleared and its key kept.
memory_clear(map, session_id) ==
    [k \in DOMAIN map |-> IF k = session_id THEN <<>> ELSE map[k]]

\* line 221: HashMap::remove(session_id)
memory_remove(map, session_id) ==
    [k \in DOMAIN map \ {session_id} |-> map[k]]

\* lines 182-185: each message flattened into its two lines.
RECURSIVE Flatten(_)
Flatten(messages) ==
    IF messages = <<>> THEN <<>>
    ELSE <<FormatUser(Head(messages).user_message),
           FormatBot(Head(messages).bot_reply)>> \o Flatten(Tail(messages))

\* lines 177-193: the results get_conversation_history may return when it
\* succeeds.
get_conversation_history(db, table, map, session_id) ==
    IF db THEN {Flatten(ms) : ms \in get_session_history(table, session_id)}
    ELSE {LinesOf(map, session_id)}

\* The loop, were it to run while i < lines.len() and pair a last line with
\* an empty reply.
PairLoopKeepingLast(lines, i, pairs) ==
    [j \in 1..((Len(lines) + 1) \div 2) |->
        <<StripPrefix(lines[2 * j - 1], UserPrefix),
          IF 2 * j <= Len(lines) THEN StripPrefix(lines[2 * j], BotPrefix)
          ELSE <<>> >>]

\* lines 203-211: the loop over the lines, two at a time (i counts from 0).
RECURSIVE PairLoop(_, _, _)
PairLoop(lines, i, pairs) ==
    IF i + 1 < Len(lines)
    THEN PairLoop(lines, i + 2,
                  Append(pairs, <<StripPrefix(lines[i + 1], UserPrefix),
                                  StripPrefix(lines[i + 2], BotPrefix)>>))
    ELSE pairs

\* line 199: messages mapped to (user_message, bot_reply)
PairsOfMessages(ms) ==
    [i \in 1..Len(ms) |-> <<ms[i].user_message, ms[i].bot_reply>>]

\* The read, were a durable store with no rows of the session to fall back
\* to the in-memory map.
get_session_pairs_fallback(db, table, map, session_id) ==
    IF db /\ WhereSession(table, session_id) # <<>>
    THEN {PairsOfMessages(ms) : ms \in get_session_history(table, session_id)}
    ELSE IF session_id \notin DOMAIN map THEN {<<>>}
         ELSE {PairLoop(map[session_id], 0, <<>>)}

\* lines 196-213: the results get_session_pairs may return when it succeeds.
get_session_pairs(db, table, map, session_id) ==
    IF db
    THEN {PairsOfMessages(ms) : ms \in get_session_history(table, session_id)}
    ELSE IF session_id \notin DOMAIN map THEN {<<>>}
         ELSE {PairLoop(map[session_id], 0, <<>>)}

\* lines 227-235
get_all_sessions(db, table, map) ==
    IF db THEN db_get_all_sessions(table) ELSE DOMAIN map

-----------------------------------------------------------------------------
(* handle_response: inputs *)

\* state.models as one request may find it: registry key -> models.
ModelRegistries ==
    << [chat |-> <<>>, embeddings |-> <<>>],
       [chat |-> <<"m1">>, embeddings |-> <<>>],
       [chat |-> <<>>, embeddings |-> <<"e1">>],
       [chat |-> <<"m1">>, embeddings |-> <<"e1">>] >>

BotEcho == <<BotPrefix, "ok">>

\* A body of the downstream response: None when it is not JSON, else the
\* parsed value.
ChoicesBody(message) == Some(JObj([choices |-> JArr(<<JObj(message)>>)]))

Bodies ==
    << ChoicesBody([message |-> JObj([content |-> JStr(BotEcho)])]),
       ChoicesBody([message |-> JObj([content |-> JNull])]),
       ChoicesBody([index |-> JNull]),
       Some(JObj([choices |-> JArr(<<>>)])),
       Some(JObj([error |-> JStr(<<"overloaded">>)])),
       None >>

\* Header values and keys are sequences of bytes: a letter, a space, a byte
\* that is not ASCII.
Bytes == {66, 32, 233}

ByteStrings(n) == UNION {[1..k -> Bytes] : k \in 1..n}

\* chat_server.api_key as the server group may hold it: none, the empty
\* string, a key.
ApiKeys == {None, Some(<<>>)} \cup {Some(<<b>>) : b \in {107, 75}}

\* headers.get("authorization") of the caller: absent, or a value.
InboundAuthorizations ==
    {None} \cup {Some(v) : v \in ByteStrings(MaxHeaderLen)}

\* HeaderValue::to_str: Ok only when every byte is visible ASCII or a tab.
to_str(value) ==
    IF \A i \in 1..Len(value) : value[i] \in 32..126 \/ value[i] = 9
    THEN Some(value) ELSE None

\* The header, were the caller's authorization the fallback whenever no key
\* is sent, and forwarded as it came.
authorization_header_else_inbound(api_key, inbound) ==
    IF api_key # None /\ api_key[1] # <<>> THEN api_key
    ELSE inbound

\* responses.rs line 104: the AUTHORIZATION header of the downstream
\* request, None when none is set.
authorization_header(api_key, inbound) ==
    IF api_key # None
    THEN IF api_key[1] # <<>> THEN Some(api_key[1]) ELSE None
    ELSE IF inbound # None THEN to_str(inbound[1])
    ELSE None

StatusOk == 200

StatusInternalServerError == 500

\* The status test, were every status from 200 on taken for a success.
is_success_lax(status) == 200 <= status

\* StatusCode::is_success
is_success(status) == 200 <= status /\ status <= 299

-----------------------------------------------------------------------------
(* handle_response: the steps between its suspension points *)

SYSTEM_PROMPT ==
    <<"You are an AI assistant. Answer as helpfully and concisely as possible.">>

new_system_message(content) == [role |-> "system", content |-> content]

new_user_message(content) == [role |-> "user", content |-> content]

new_assistant_message(content) == [role |-> "assistant", content |-> content]

\* lines 43-53: the models the request may resolve to; None is the error.
resolve_model(model, models_map) ==
    IF model # None THEN {Some(model[1])}
    ELSE LET filled == {k \in DOMAIN models_map : models_map[k] # <<>>}
         IN  IF filled = {} THEN {None}
             ELSE {Some(models_map[k][1]) : k \in filled}

\* The loop, were it to skip a pair equal to the one before it.
RECURSIVE PushPairsDedup(_, _)
PushPairsDedup(messages, pairs) ==
    IF pairs = <<>> THEN messages
    ELSE IF Len(pairs) >= 2 /\ pairs[1] = pairs[2]
         THEN PushPairsDedup(messages, Tail(pairs))
         ELSE PushPairsDedup(
                  messages \o <<new_user_message(Head(pairs)[1]),
                                new_assistant_message(Head(pairs)[2])>>,
                  Tail(pairs))

\* lines 65-77: the loop over the pairs.
RECURSIVE PushPairs(_, _)
PushPairs(messages, pairs) ==
    IF pairs = <<>> THEN messages
    ELSE PushPairs(messages \o <<new_user_message(Head(pairs)[1]),
                                new_assistant_message(Head(pairs)[2])>>,
                   Tail(pairs))

\* The messages, were the new user message pushed inside the `if let Ok`.
build_messages_inside(pairs_result, user_message) ==
    LET system == <<new_system_message(SYSTEM_PROMPT)>>
    IN  IF pairs_result # None
        THEN Append(PushPairs(system, pairs_result[1]),
                    new_user_message(user_message))
        ELSE system

\* lines 57-83: pairs_result is Some(pairs) for Ok(pairs), None for Err.
build_messages(pairs_result, user_message) ==
    LET system == <<new_system_message(SYSTEM_PROMPT)>>
        replayed == IF pairs_result # None
                    THEN PushPairs(system, pairs_result[1])
                    ELSE system
    IN  Append(replayed, new_user_message(user_message))

\* A slot's request: the payload, and what the handler holds between its
\* suspension points. The requests that handle_response_assemble starts
\* come with no authorization header and find a server without a key;
\* SpecCredentials starts from requests with the other credentials.
Idle ==
    [pc |-> "idle", session_id |-> "", user_message |-> <<>>, model |-> None,
     pairs_ok |-> FALSE, messages |-> <<>>, sends |-> 0, status |-> 0,
     content |-> None, bot_reply |-> <<>>, timestamp |-> 0, saves |-> 0,
     api_key |-> None, inbound |-> None]

\* What the latest step gave out. What a route returned to its caller:
\* result is "Ok" or "Err"; error is the ServerError message; status is the
\* StatusCode a route returns. For handle_response, downstream is the status
\* the chat server answered with (0 when none was received), and sends, saves
\* and logged tell what the call did on its way. For a step that sent a
\* request downstream, sent holds the credentials it was built from and the
\* AUTHORIZATION header it carried.
NoResponse ==
    [op |-> "none", session_id |-> "", result |-> "none", error |-> "",
     status |-> 0, downstream |-> 0, reply |-> <<>>, messages |-> <<>>,
     sessions |-> {}, sends |-> 0, saves |-> 0, logged |-> FALSE,
     sent |-> None]

\* lines 102-105: the downstream request, as far as its credentials go.
DownstreamRequest(api_key, inbound) ==
    [api_key |-> api_key, inbound |-> inbound,
     authorization |-> authorization_header(api_key, inbound)]

\* The results a read of the store may give a caller: each Ok as Some, and
\* in durable mode also the error, None.
ReadResults(oks) == {Some(v) : v \in oks} \cup (IF database THEN {None} ELSE {})

\* return Err(ServerError::Operation(error))
Err(error, downstream, sends) ==
    [NoResponse EXCEPT !.op = "handle_response", !.result = "Err",
                       !.error = error, !.downstream = downstream,
                       !.sends = sends]

\* What the payload's model may resolve to, over the registries the request
\* may find.
ResolvedModels(model) ==
    UNION {resolve_model(model, ModelRegistries[i]) :
             i \in 1..Len(ModelRegistries)}

\* lines 42-83: the model is resolved, the history read, the messages built.
handle_response_assemble(r) ==
    /\ req[r].pc = "idle"
    /\ started < MaxSubmits
    /\ \E session_id \in Sessions, user_message \in UserMessages,
          model \in {None} \cup {Some(m) : m \in ExplicitModels} :
         LET q == [Idle EXCEPT !.session_id = session_id,
                               !.user_message = user_message]
         IN  \E resolved \in ResolvedModels(model) :
               IF resolved = None
               THEN /\ UNCHANGED <<req, memory_fallback>>
                    /\ response' = Err("No chat model registered", 0, 0)
               ELSE \E pairs_result \in ReadResults(
                           get_session_pairs(database, chat_messages,
                                             memory_fallback, session_id)) :
                      /\ req' = [req EXCEPT ![r] =
                                   [q EXCEPT !.pc = "relay",
                                             !.model = resolved,
                                             !.pairs_ok = (pairs_result # None),
                                             !.messages = build_messages(
                                                  pairs_result, user_message)]]
                      /\ memory_fallback' =
                           IF database THEN memory_fallback
                           ELSE memory_after_get(memory_fallback, session_id)
                      /\ response' = NoResponse
    /\ started' = started + 1
    /\ UNCHANGED <<database, chat_messages, next_id, now, recorded>>

\* What the downstream side may do to one request: whether a chat group is
\* registered, whether it hands out a server, whether the send succeeds, and
\* the status and body of the response.
Downstream(chat_group, acquired, sent, status, body) ==
    [chat_group |-> chat_group, acquired |-> acquired, sent |-> sent,
     status |-> status, body |-> body]

DownstreamCases ==
    << Downstream(FALSE, FALSE, FALSE, 0, None),
       Downstream(TRUE, FALSE, FALSE, 0, None),
       Downstream(TRUE, TRUE, FALSE, 0, None),
       Downstream(TRUE, TRUE, TRUE, StatusInternalServerError, Bodies[5]) >>
    \o [i \in 1..Len(Bodies) |->
           Downstream(TRUE, TRUE, TRUE, StatusOk, Bodies[i])]

\* lines 93-119: a chat server is acquired, the request sent, the reply read.
\* q.api_key is the key of the server that chat_group.next() hands out and
\* q.inbound the authorization header the call came with.
handle_response_relay(r) ==
    /\ req[r].pc = "relay"
    /\ \E i \in 1..Len(DownstreamCases) :
         LET d == DownstreamCases[i]
             q == req[r]
             sent == Some(DownstreamRequest(q.api_key, q.inbound))
             err(error, downstream, sends) ==
                 /\ req' = [req EXCEPT ![r] = Idle]
                 /\ response' = [Err(error, downstream, sends) EXCEPT
                                    !.sent = IF sends = 0 THEN None ELSE sent]
         IN  IF ~d.chat_group THEN err("No chat server available", 0, 0)
             ELSE IF ~d.acquired
                  THEN err("Failed to acquire chat server", 0, 0)
             ELSE IF ~d.sent THEN err("Downstream request failed", 0, 1)
             ELSE IF ~is_success(d.status)
                  THEN err("Downstream chat error", d.status, 1)
             ELSE IF d.body = None
                  THEN err("Failed to parse downstream response JSON",
                           d.status, 1)
             ELSE LET content == extract_content(d.body[1])
                  IN  /\ req' = [req EXCEPT ![r] =
                                   [q EXCEPT !.pc = "save", !.sends = 1,
                                             !.model = None,
                                             !.messages = <<>>,
                                             !.pairs_ok = FALSE,
                                             !.api_key = None,
                                             !.inbound = None,
                                             !.status = d.status,
                                             !.content = content,
                                             !.bot_reply =
                                                reply_or_placeholder(content)]]
                      /\ response' = [NoResponse EXCEPT !.sent = sent]
    /\ UNCHANGED <<database, chat_messages, next_id, memory_fallback, now,
                   started, recorded>>

\* What Utc::now() may return: the clock does not go back, and two calls may
\* read the same instant.
UtcNow == {now, now + 1}

\* lines 155-162: save_conversation is entered and the message stamped.
save_conversation_stamp(r) ==
    /\ req[r].pc = "save"
    /\ \E t \in UtcNow :
         /\ now' = t
         /\ req' = [req EXCEPT ![r] = [@ EXCEPT !.pc = "persist",
                                                !.timestamp = t,
                                                !.saves = @ + 1]]
    /\ response' = NoResponse
    /\ UNCHANGED <<database, chat_messages, next_id, memory_fallback, started,
                   recorded>>

\* The return, were the save's error propagated to the caller.
reply_after_save_propagating(q, saved) ==
    IF saved
    THEN [NoResponse EXCEPT !.op = "handle_response", !.result = "Ok",
                            !.downstream = q.status, !.reply = q.bot_reply,
                            !.sends = q.sends, !.saves = q.saves]
    ELSE [NoResponse EXCEPT !.op = "handle_response", !.result = "Err",
                            !.error = "Failed to save conversation",
                            !.downstream = q.status, !.sends = q.sends,
                            !.saves = q.saves]

\* responses.rs lines 121-126: a failed save is logged; the reply is
\* returned whether or not the save succeeded.
reply_after_save(q, saved) ==
    [NoResponse EXCEPT !.op = "handle_response", !.result = "Ok",
                       !.downstream = q.status, !.reply = q.bot_reply,
                       !.sends = q.sends, !.saves = q.saves,
                       !.logged = ~saved]

Turn(q) ==
    [user_message |-> q.user_message, bot_reply |-> q.bot_reply,
     timestamp |-> q.timestamp]

\* lines 164-174 and 122-126: the turn is stored, or the insert fails and
\* the failure is logged; the reply is returned either way.
save_conversation_persist(r) ==
    /\ req[r].pc = "persist"
    /\ LET q == req[r]
           message == ChatMessage(None, q.session_id, q.user_message,
                                  q.bot_reply, q.timestamp)
       IN  \E ok \in (IF database THEN BOOLEAN ELSE {TRUE}) :
             /\ IF ~ok
                THEN UNCHANGED <<chat_messages, next_id, memory_fallback,
                                 recorded>>
                ELSE /\ recorded' = [recorded EXCEPT ![q.session_id] =
                                        Append(@, Turn(q))]
                     /\ IF database
                        THEN /\ chat_messages' =
                                  save_message(chat_messages, next_id, message)
                             /\ next_id' = next_id + 1
                             /\ UNCHANGED memory_fallback
                        ELSE /\ memory_fallback' =
                                  memory_push(memory_fallback, q.session_id,
                                              q.user_message, q.bot_reply)
                             /\ UNCHANGED <<chat_messages, next_id>>
             /\ response' = reply_after_save(q, ok)
    /\ req' = [req EXCEPT ![r] = Idle]
    /\ UNCHANGED <<database, now, started>>

-----------------------------------------------------------------------------
(* The single-step routes *)

\* responses.rs lines 129-140: the responses the route may give.
get_chat_history_response(session_id) ==
    {IF result = None
     THEN [NoResponse EXCEPT !.op = "get_chat_history", !.result = "Err",
                             !.status = StatusInternalServerError]
     ELSE [NoResponse EXCEPT !.op = "get_chat_history",
                             !.session_id = session_id, !.result = "Ok",
                             !.status = StatusOk, !.messages = result[1]] :
       result \in ReadResults(get_conversation_history(
                      database, chat_messages, memory_fallback, session_id))}

\* responses.rs lines 142-149: the responses the route may give.
get_all_sessions_response ==
    {IF result = None
     THEN [NoResponse EXCEPT !.op = "get_all_sessions", !.result = "Err",
                             !.status = StatusInternalServerError]
     ELSE [NoResponse EXCEPT !.op = "get_all_sessions", !.result = "Ok",
                             !.status = StatusOk, !.sessions = result[1]] :
       result \in ReadResults({get_all_sessions(database, chat_messages,
                                                memory_fallback)})}

\* A read route answers its caller; what it leaves in the store is what the
\* reads of ChatStorage leave.
route_get_chat_history(session_id) ==
    /\ get_chat_history_response(session_id) # {}
    /\ memory_fallback' =
         IF database THEN memory_fallback
         ELSE memory_after_get(memory_fallback, session_id)
    /\ UNCHANGED <<database, chat_messages, next_id, now, req, started,
                   response, recorded>>

route_get_all_sessions ==
    /\ get_all_sessions_response # {}
    /\ UNCHANGED vars

\* responses.rs lines 151-159 and database.rs lines 215-225
route_delete_session(session_id) ==
    /\ \E ok \in (IF database THEN BOOLEAN ELSE {TRUE}) :
         IF ~ok
         THEN /\ response' = [NoResponse EXCEPT
                                 !.op = "delete_session", !.result = "Err",
                                 !.status = StatusInternalServerError]
              /\ UNCHANGED <<chat_messages, memory_fallback, recorded>>
         ELSE /\ response' = [NoResponse EXCEPT
                                 !.op = "delete_session", !.result = "Ok",
                                 !.status = StatusOk]
              /\ recorded' = [recorded EXCEPT ![session_id] = <<>>]
              /\ IF database
                 THEN /\ chat_messages' =
                           delete_session_history(chat_messages, session_id)
                      /\ UNCHANGED memory_fallback
                 ELSE /\ memory_fallback' =
                           memory_remove(memory_fallback, session_id)
                      /\ UNCHANGED chat_messages
    /\ UNCHANGED <<database, next_id, now, req, started>>

-----------------------------------------------------------------------------
(* The specification *)

\* lines 139-153: new_with_database or new_memory_only; nothing is stored.
Init ==
    /\ database \in BOOLEAN
    /\ chat_messages = <<>>
    /\ next_id = 1
    /\ memory_fallback = [k \in {} |-> <<>>]
    /\ now = 0
    /\ req = [r \in Slots |-> Idle]
    /\ started = 0
    /\ response = NoResponse
    /\ recorded = [s \in Sessions |-> <<>>]

Next ==
    \/ \E r \in Slots : handle_response_assemble(r)
    \/ \E r \in Slots : handle_response_relay(r)
    \/ \E r \in Slots : save_conversation_stamp(r)
    \/ \E r \in Slots : save_conversation_persist(r)
    \/ \E s \in ReadSessions : route_get_chat_history(s)
    \/ route_get_all_sessions
    \/ \E s \in Sessions : route_delete_session(s)

Spec == Init /\ [][Next]_vars

-----------------------------------------------------------------------------
(* A request on its way to the relay, with each header and each server key *)

InitCredentials ==
    /\ database \in BOOLEAN
    /\ chat_messages = <<>>
    /\ next_id = 1
    /\ memory_fallback = [k \in {} |-> <<>>]
    /\ now = 0
    /\ \E api_key \in ApiKeys, inbound \in InboundAuthorizations :
         req = [r \in Slots |->
                  IF r = "r1"
                  THEN [Idle EXCEPT !.pc = "relay", !.session_id = "s1",
                                    !.user_message = <<"hi">>,
                                    !.model = Some("m1"), !.pairs_ok = TRUE,
                                    !.messages =
                                       build_messages(Some(<<>>), <<"hi">>),
                                    !.api_key = api_key, !.inbound = inbound]
                  ELSE Idle]
    /\ started = MaxSubmits - 1
    /\ response = NoResponse
    /\ recorded = [s \in Sessions |-> <<>>]

SpecCredentials == InitCredentials /\ [][Next]_vars

-----------------------------------------------------------------------------
(* An in-memory map that holds any lines, and one more request *)

\* The lines a Vec<String> of the map may hold: with either prefix, with
\* none, empty.
StoredLines == {<<UserPrefix, "hi">>, <<BotPrefix, "ok">>, <<"hi">>, <<>>}

LineSeqs == UNION {[1..n -> StoredLines] : n \in 0..MaxLines}

\* A volatile store whose map holds a line sequence for session "s1": the
\* argument of the loop of get_session_pairs, of any length.
InitLines ==
    /\ database = FALSE
    /\ chat_messages = <<>>
    /\ next_id = 1
    /\ memory_fallback \in [{"s1"} -> LineSeqs]
    /\ now = 0
    /\ req = [r \in Slots |-> Idle]
    /\ started = MaxSubmits - 1
    /\ response = NoResponse
    /\ recorded = [s \in Sessions |-> <<>>]

SpecLines == InitLines /\ [][Next]_vars

-----------------------------------------------------------------------------
(* A store that already holds a history, and one more request *)

\* The (user_message, bot_reply) texts a request can store.
TurnTexts == UserMessages \X {BotEcho, NoContent}

Histories == UNION {[1..n -> TurnTexts] : n \in 0..MaxPairs}

RECURSIVE SaveAll(_, _, _, _)
SaveAll(table, session_id, h, k) ==
    IF k > Len(h) THEN table
    ELSE SaveAll(save_message(table, k,
                     ChatMessage(None, session_id, h[k][1], h[k][2], k)),
                 session_id, h, k + 1)

RECURSIVE PushAll(_, _, _, _)
PushAll(map, session_id, h, k) ==
    IF k > Len(h) THEN map
    ELSE PushAll(memory_push(map, session_id, h[k][1], h[k][2]),
                 session_id, h, k + 1)

\* The state after the turns of h were recorded for session "s1", one after
\* the other, at the instants 1, 2, ...
InitStored ==
    /\ database \in BOOLEAN
    /\ \E h \in Histories :
         /\ chat_messages = IF database THEN SaveAll(<<>>, "s1", h, 1)
                            ELSE <<>>
         /\ next_id = IF database THEN Len(h) + 1 ELSE 1
         /\ memory_fallback =
               IF database THEN [k \in {} |-> <<>>]
               ELSE PushAll([k \in {} |-> <<>>], "s1", h, 1)
         /\ now = Len(h)
         /\ recorded = [s \in Sessions |->
                          IF s = "s1"
                          THEN [i \in 1..Len(h) |->
                                  [user_message |-> h[i][1],
                                   bot_reply |-> h[i][2], timestamp |-> i]]
                          ELSE <<>>]
    /\ req = [r \in Slots |-> Idle]
    /\ started = MaxSubmits - 1
    /\ response = NoResponse

SpecStored == InitStored /\ [][Next]_vars

-----------------------------------------------------------------------------
(* What the claims speak of *)

\* history_pairs(S): the results get_session_pairs may return when it succeeds.
Pairs(s) == get_session_pairs(database, chat_messages, memory_fallback, s)

\* all_sessions(), when it succeeds.
AllSessions == get_all_sessions(database, chat_messages, memory_fallback)

Store == <<chat_messages, memory_fallback>>

\* The pairs of the turns recorded for s, in the order the store took them.
RecordedPairs(s) ==
    [i \in 1..Len(recorded[s]) |->
        <<recorded[s][i].user_message, recorded[s][i].bot_reply>>]

IsPrefix(h, g) == Len(h) <= Len(g) /\ \A i \in 1..Len(h) : h[i] = g[i]

\* How many times x occurs in the sequence h.
Count(h, x) == Cardinality({i \in 1..Len(h) : h[i] = x})

-----------------------------------------------------------------------------
(* C4 *)

\* The message list the claim describes for the pairs and the new message.
Interleaved(m, pairs, user_message) ==
    /\ Len(m) = 2 * Len(pairs) + 2
    /\ m[1] = [role |-> "system", content |-> SYSTEM_PROMPT]
    /\ \A i \in 1..Len(pairs) :
         /\ m[2 * i] = [role |-> "user", content |-> pairs[i][1]]
         /\ m[2 * i + 1] = [role |-> "assistant", content |-> pairs[i][2]]
    /\ m[Len(m)] = [role |-> "user", content |-> user_message]

\* C4: whenever handle_response has read N pairs for the session, the
\* message list it builds has 2N+2 messages: the system directive first, then
\* the user and the assistant message of each pair in the order read, then
\* the new user message.
C4_MessagesInterleaved ==
    [][\A r \in Slots :
         (req[r].pc = "idle" /\ req'[r].pc = "relay" /\ req'[r].pairs_ok)
         => \E pairs \in Pairs(req'[r].session_id) :
              Interleaved(req'[r].messages, pairs, req'[r].user_message)]_vars

\* A request has built its messages from a history of at least two pairs.
C4_Witness ==
    \E r \in Slots :
        /\ req[r].pc = "relay"
        /\ req[r].pairs_ok
        /\ Len(req[r].messages) >= 6
        /\ req[r].messages[2] # req[r].messages[4]

-----------------------------------------------------------------------------
(* C1 and C10 *)

\* The turns of s were stamped in the order the store took them, as they
\* are when the record_turn calls follow one another.
StampedInOrder(s) ==
    \A i, j \in 1..Len(recorded[s]) :
        i < j => recorded[s][i].timestamp <= recorded[s][j].timestamp

\* C1: after N record_turn calls on a session, made one after the other with
\* no delete in between, history_pairs returns exactly the N recorded pairs,
\* the i-th being that of the i-th recorded turn, in both modes.
C1_PairsInRecordedOrder ==
    \A s \in Sessions :
        StampedInOrder(s) => \A h \in Pairs(s) : h = RecordedPairs(s)

\* C10: history retrieval returns the turns of a session by timestamp
\* ascending, and turns with equal timestamps in insertion order (durable
\* mode: ascending id); in volatile mode the lines come back in the order
\* the store took the turns.
C10_TimestampThenInsertionOrder ==
    \A s \in Sessions :
        IF database
        THEN \A ms \in get_session_history(chat_messages, s) :
               \A i, j \in 1..Len(ms) :
                  i < j => \/ ms[i].timestamp < ms[j].timestamp
                           \/ /\ ms[i].timestamp = ms[j].timestamp
                              /\ ms[i].id[1] < ms[j].id[1]
        ELSE StampedInOrder(s)

-----------------------------------------------------------------------------
(* C2 *)

\* The step is a delete_session(s) that succeeded.
Deleted(s) ==
    /\ response'.op = "delete_session"
    /\ response'.result = "Ok"
    /\ route_delete_session(s)

\* C2, as claimed: while no delete_session(S) succeeds, a result H of
\* history_pairs(S) is a prefix of every later result, in both modes.
C2_EarlierResultIsPrefix ==
    [][\A s \in Sessions :
         ~Deleted(s)
         => \A h \in Pairs(s) : \A g \in Pairs(s)' : IsPrefix(h, g)]_vars

\* C2, amended: while no delete_session(S) succeeds, every pair of a result
\* H of history_pairs(S) occurs in every later result at least as often as
\* in H (no turn is altered or removed), and in volatile mode H is a prefix
\* of the later result.
C2_EarlierTurnsKept ==
    [][\A s \in Sessions :
         ~Deleted(s)
         => \A h \in Pairs(s) : \A g \in Pairs(s)' :
              /\ Len(h) <= Len(g)
              /\ \A i \in 1..Len(h) : Count(h, h[i]) <= Count(g, h[i])
              /\ ~database => IsPrefix(h, g)]_vars

\* A session holds two turns: a turn was recorded after an earlier one.
C2_Witness ==
    \E s \in Sessions :
        /\ Len(recorded[s]) >= 2
        /\ \A h \in Pairs(s) : Len(h) >= 2

-----------------------------------------------------------------------------
(* C3 *)

\* C3: from a successful delete_session(S) until a turn is recorded for S,
\* all_sessions() does not list S and history_pairs(S) is empty, in both
\* modes.
C3_DeletedSessionGone ==
    \A s \in Sessions :
        recorded[s] = <<>> => s \notin AllSessions /\ Pairs(s) = {<<>>}

\* A delete_session has just succeeded, and rows that had been inserted are
\* gone from the table.
C3_Witness ==
    /\ response.op = "delete_session"
    /\ response.result = "Ok"
    /\ database
    /\ next_id > Len(chat_messages) + 1
    /\ \E s \in Sessions : recorded[s] = <<>>

-----------------------------------------------------------------------------
(* C5 *)

\* Slot r's request returns in this step from save_conversation.
Returns(r) == req[r].pc = "persist" /\ req'[r].pc = "idle"

\* history_pairs(s), when it succeeds, after the step.
PairsAfter(s) ==
    get_session_pairs(database', chat_messages', memory_fallback', s)

Success(status) == status \in 200..299

\* What C5 says of a request whose save succeeded, but for the place of the
\* new pair in the session's history.
TurnStoredOnce(r) ==
    LET q == req[r]
        pair == <<q.user_message, q.bot_reply>>
    IN  /\ q.bot_reply = reply_or_placeholder(q.content)
        /\ response'.result = "Ok"
        /\ response'.reply = q.bot_reply
        /\ response'.sends = 1
        /\ response'.saves = 1
        /\ \A h \in Pairs(q.session_id) : \A g \in PairsAfter(q.session_id) :
             /\ Len(g) = Len(h) + 1
             /\ Count(g, pair) = Count(h, pair) + 1
        /\ \A s \in Sessions \ {q.session_id} : Pairs(s)' = Pairs(s)

\* C5, as claimed: a request with a successful reply and a successful save
\* stores exactly one turn (its session, its user message, the extracted
\* reply), returns that reply, has sent once and saved once, and afterwards
\* history_pairs of the session ends with (user_message, reply).
C5_TurnStoredLast ==
    [][\A r \in Slots :
         (Returns(r) /\ ~response'.logged)
         => /\ TurnStoredOnce(r)
            /\ \A g \in PairsAfter(req[r].session_id) :
                 g[Len(g)] = <<req[r].user_message, req[r].bot_reply>>]_vars

\* C5, amended: the same, but for the place of the pair: it is the last one
\* of history_pairs in volatile mode; in durable mode the new row stands
\* where its timestamp puts it, after the rows stamped earlier and before
\* the rows stamped later.
C5_TurnStoredOnce ==
    [][\A r \in Slots :
         (Returns(r) /\ ~response'.logged)
         => /\ TurnStoredOnce(r)
            /\ ~database
               => \A g \in PairsAfter(req[r].session_id) :
                    g[Len(g)] = <<req[r].user_message, req[r].bot_reply>>
            /\ database
               => \A ms \in get_session_history(chat_messages',
                                                req[r].session_id) :
                    \E k \in 1..Len(ms) :
                      /\ ms[k] = ChatMessage(Some(next_id), req[r].session_id,
                                             req[r].user_message,
                                             req[r].bot_reply,
                                             req[r].timestamp)
                      /\ \A i \in 1..(k - 1) :
                           ms[i].timestamp <= req[r].timestamp
                      /\ \A i \in (k + 1)..Len(ms) :
                           ms[i].timestamp >= req[r].timestamp]_vars

\* A request has returned its reply after storing a second turn of a session.
C5_Witness ==
    /\ response.op = "handle_response"
    /\ response.result = "Ok"
    /\ ~response.logged
    /\ \E s \in Sessions : Len(recorded[s]) >= 2

-----------------------------------------------------------------------------
(* C6 *)

\* C6: a request that ends with an error (no model, no chat server, failed
\* send, non-success status, unreadable body) has stored nothing: the store
\* is the same before and after each of its steps; a request goes on to the
\* relay only with a model, and on to the save only with a success status.
C6_FailureRecordsNothing ==
    [][/\ (response'.op = "handle_response" /\ response'.result = "Err")
          => /\ Store' = Store
             /\ next_id' = next_id
             /\ response'.saves = 0
             /\ response'.reply = <<>>
       /\ \A r \in Slots :
            /\ (req[r].pc = "idle" /\ req'[r].pc = "relay")
               => req'[r].model # None /\ Store' = Store
            /\ (req[r].pc = "relay" /\ req'[r].pc = "save")
               => Success(req'[r].status) /\ Store' = Store]_vars

\* A request has failed on a downstream status 500 while turns are stored.
C6_Witness ==
    /\ response.op = "handle_response"
    /\ response.result = "Err"
    /\ response.error = "Downstream chat error"
    /\ response.downstream = 500
    /\ \E s \in Sessions : recorded[s] # <<>>

-----------------------------------------------------------------------------
(* C7 *)

\* C7: a request that returns from save_conversation returns Ok with the
\* reply it got, whether or not the save succeeded; a failed save is logged
\* and leaves the store as it was.
C7_SaveFailureSwallowed ==
    [][\A r \in Slots :
         Returns(r)
         => /\ response'.result = "Ok"
            /\ response'.reply = req[r].bot_reply
            /\ response'.logged <=> (Store' = Store)]_vars

\* A request has returned Ok although its save failed.
C7_Witness ==
    /\ response.op = "handle_response"
    /\ response.result = "Ok"
    /\ response.logged
    /\ response.reply # <<>>

-----------------------------------------------------------------------------
(* C8 *)

\* C8: when get_session_pairs fails, the messages built are the system
\* directive and the new user message, and the request goes on to the relay:
\* the only error the assembly ends with is the missing model.
C8_HistoryFailureIgnored ==
    [][/\ \A r \in Slots :
            (req[r].pc = "idle" /\ req'[r].pc = "relay" /\ ~req'[r].pairs_ok)
            => req'[r].messages =
                 <<[role |-> "system", content |-> SYSTEM_PROMPT],
                   [role |-> "user", content |-> req'[r].user_message]>>
       /\ (started' = started + 1 /\ response'.result = "Err")
          => response'.error = "No chat model registered"]_vars

\* A request is at the relay after its history read failed, with turns of
\* its session stored.
C8_Witness ==
    \E r \in Slots :
        /\ req[r].pc = "relay"
        /\ ~req[r].pairs_ok
        /\ Len(recorded[req[r].session_id]) >= 2

-----------------------------------------------------------------------------
(* C9 *)

\* C9: a request that got a success status from the chat server succeeds,
\* whatever the body.
C9_AnyBodySucceeds ==
    (response.op = "handle_response" /\ Success(response.downstream))
    => response.result = "Ok"

\* A request has failed on a body that is not JSON, sent with status 200.
C9_ParseFailure ==
    /\ response.op = "handle_response"
    /\ response.result = "Err"
    /\ response.error = "Failed to parse downstream response JSON"
    /\ response.downstream = 200

\* What the code keeps of C9: a request that got a success status fails only
\* when the body is not JSON; when the JSON value holds no string at
\* choices[0].message.content, the reply is the placeholder, which is
\* returned and, when the save succeeds, stored as the turn's bot_reply.
JsonBodySucceeds ==
    [][/\ (/\ response'.op = "handle_response"
           /\ Success(response'.downstream)
           /\ response'.result = "Err")
          => response'.error = "Failed to parse downstream response JSON"
       /\ \A r \in Slots :
            /\ (req[r].pc = "relay" /\ req'[r].pc = "save"
                  /\ req'[r].content = None)
               => req'[r].bot_reply = NoContent
            /\ (Returns(r) /\ req[r].content = None)
               => /\ response'.result = "Ok"
                  /\ response'.reply = <<"(no content)">>
                  /\ ~response'.logged
                     => \A g \in PairsAfter(req[r].session_id) :
                          Count(g, <<req[r].user_message,
                                     <<"(no content)">>>>) >= 1]_vars

\* A request has returned the placeholder and stored it.
PlaceholderStored ==
    /\ response.op = "handle_response"
    /\ response.result = "Ok"
    /\ response.reply = <<"(no content)">>
    /\ ~response.logged
    /\ \E s \in Sessions : \E i \in 1..Len(recorded[s]) :
         recorded[s][i].bot_reply = <<"(no content)">>

-----------------------------------------------------------------------------
(* C11 *)

\* C11: whatever else is in flight, a request whose save succeeds stores its
\* turn exactly once: the history of its session has one pair more, one more
\* occurrence of its pair, and every pair it had before; in volatile mode
\* the two lines of the turn are pushed together at the end of the
\* session's lines.
C11_ConcurrentTurnsStoredOnce ==
    [][\A r \in Slots :
         (Returns(r) /\ ~response'.logged)
         => LET q == req[r]
                pair == <<q.user_message, q.bot_reply>>
            IN  /\ \A h \in Pairs(q.session_id) :
                     \A g \in PairsAfter(q.session_id) :
                       /\ Len(g) = Len(h) + 1
                       /\ Count(g, pair) = Count(h, pair) + 1
                       /\ \A i \in 1..Len(h) :
                            h[i] # pair => Count(g, h[i]) = Count(h, h[i])
                /\ ~database
                   => memory_fallback' =
                        [k \in DOMAIN memory_fallback \cup {q.session_id} |->
                           IF k = q.session_id
                           THEN LinesOf(memory_fallback, k)
                                   \o <<<<UserPrefix>> \o q.user_message,
                                        <<BotPrefix>> \o q.bot_reply>>
                           ELSE memory_fallback[k]]]_vars

\* Two requests on one session ran concurrently in volatile mode and both
\* succeeded: the turn stamped later was appended first, and each turn's two
\* lines are adjacent.
C11_Witness ==
    /\ ~database
    /\ \E s \in Sessions :
         /\ Len(recorded[s]) = 2
         /\ recorded[s][1].timestamp > recorded[s][2].timestamp
         /\ recorded[s][1].user_message # recorded[s][2].user_message
         /\ Len(memory_fallback[s]) = 4

\* The same, the turn stamped first appended first: a request was stamped
\* and stored while another, stamped before it, had stored its turn.
AppendedInStampOrder ==
    /\ ~database
    /\ \E s \in Sessions :
         /\ Len(recorded[s]) = 2
         /\ recorded[s][1].timestamp < recorded[s][2].timestamp
         /\ recorded[s][1].user_message # recorded[s][2].user_message

-----------------------------------------------------------------------------
(* C12 *)

\* A map and a table with a turn of every session: what the backend that is
\* not in use would answer from, were it asked.
OtherMap ==
    [s \in Sessions |-> <<<<UserPrefix, "other">>, <<BotPrefix, "other">>>>]

OtherTable ==
    <<[id |-> <<1>>, session_id |-> "s1", user_message |-> <<"other">>,
       bot_reply |-> <<"other">>, timestamp |-> 0],
      [id |-> <<2>>, session_id |-> "s2", user_message |-> <<"other">>,
       bot_reply |-> <<"other">>, timestamp |-> 0]>>

\* What the three reads answer from a table and a map.
Reads(db, table, map) ==
    <<[s \in Sessions |-> get_session_pairs(db, table, map, s)],
      [s \in Sessions |-> get_conversation_history(db, table, map, s)],
      get_all_sessions(db, table, map)>>

\* No read depends on the backend that is not in use.
ReadsOwnBackend ==
    Reads(database, chat_messages, memory_fallback)
      = IF database THEN Reads(database, chat_messages, OtherMap)
        ELSE Reads(database, OtherTable, memory_fallback)

\* C12: the mode never changes; in durable mode no step writes the
\* in-memory map, also when the durable operation fails, and no read depends
\* on it; in volatile mode no step writes the table or takes an id, and no
\* read depends on the table.
C12_ModeFixed ==
    /\ []ReadsOwnBackend
    /\ [][/\ database' = database
          /\ database => memory_fallback' = memory_fallback
          /\ ~database => /\ chat_messages' = chat_messages
                          /\ next_id' = next_id]_vars

\* A durable delete has failed while rows are stored: the error went to the
\* caller and the in-memory map is as it was built.
C12_Witness ==
    /\ database
    /\ response.op = "delete_session"
    /\ response.result = "Err"
    /\ chat_messages # <<>>
    /\ DOMAIN memory_fallback = {}

-----------------------------------------------------------------------------
(* C13 *)

\* What is stored for session s: its rows and, when the map has its key, its
\* lines.
StoredFor(table, map, s) ==
    <<WhereSession(table, s), IF s \in DOMAIN map THEN <<map[s]>> ELSE <<>>>>

\* C13: a delete_session(S) that succeeds leaves nothing stored for S and
\* leaves what is stored for every other session as it was; when nothing was
\* stored for S it changes nothing; applied to the state it leaves, it
\* changes nothing. Absence is no error: in volatile mode every
\* delete_session succeeds.
C13_DeleteOnlyThatSession ==
    [][/\ \A s \in Sessions :
            Deleted(s)
            => /\ StoredFor(chat_messages', memory_fallback', s)
                    = <<<<>>, <<>>>>
               /\ \A t \in Sessions \ {s} :
                    StoredFor(chat_messages', memory_fallback', t)
                      = StoredFor(chat_messages, memory_fallback, t)
               /\ StoredFor(chat_messages, memory_fallback, s) = <<<<>>, <<>>>>
                  => Store' = Store
               /\ delete_session_history(chat_messages', s) = chat_messages'
               /\ memory_remove(memory_fallback', s) = memory_fallback'
               /\ next_id' = next_id
       /\ (response'.op = "delete_session" /\ ~database)
          => response'.result = "Ok"]_vars

\* A delete_session has succeeded in durable mode: the second row inserted
\* has gone and the first, which was there when it went, is still stored.
C13_Witness ==
    /\ response.op = "delete_session"
    /\ response.result = "Ok"
    /\ database
    /\ next_id >= 3
    /\ \E i \in 1..Len(chat_messages) : chat_messages[i].id = <<1>>
    /\ \A i \in 1..Len(chat_messages) : chat_messages[i].id # <<2>>

\* A delete_session of a session with nothing stored has succeeded, beside a
\* stored session.
DeletedAbsentSession ==
    /\ response.op = "delete_session"
    /\ response.result = "Ok"
    /\ \E s, t \in Sessions :
         /\ recorded[s] = <<>>
         /\ recorded[t] # <<>>
         /\ next_id = Len(chat_messages) + 1

-----------------------------------------------------------------------------
(* C14 *)

\* C14: in every state all_sessions() is the set of the sessions with at
\* least one stored turn: those whose history_pairs is not empty, which are
\* those with a turn recorded since their last delete.
C14_AllSessionsExact ==
    /\ AllSessions = {s \in Sessions : \A h \in Pairs(s) : Len(h) >= 1}
    /\ AllSessions = {s \in Sessions : recorded[s] # <<>>}

\* After turns were recorded and a delete_session removed rows, one session
\* is listed and the other is not.
C14_Witness ==
    /\ response.op = "delete_session"
    /\ response.result = "Ok"
    /\ \E s, t \in Sessions : s \in AllSessions /\ t \notin AllSessions
    /\ database
    /\ next_id > Len(chat_messages) + 1

\* Both sessions are listed.
BothSessionsListed == AllSessions = Sessions

-----------------------------------------------------------------------------
(* C15 *)

\* A session with no turns is not an error to the reads: every result is
\* the empty sequence, and in volatile mode, where no storage can fail, the
\* reads give nothing else.
EmptyReads ==
    \A s \in ReadSessions :
        StoredFor(chat_messages, memory_fallback, s) = <<<<>>, <<>>>>
        => /\ Pairs(s) = {<<>>}
           /\ get_conversation_history(database, chat_messages,
                                       memory_fallback, s) = {<<>>}
           /\ ~database
              => /\ ReadResults(Pairs(s)) = {<<<<>>>>}
                 /\ \A a \in get_chat_history_response(s) :
                      a.result = "Ok" /\ a.messages = <<>>

\* C15: history_lines and history_pairs of a session with no turns, the
\* empty-string session among them, are empty and no error; the store and
\* all_sessions() change only in a step that stores a turn or deletes a
\* session, never in a read.
C15_ReadsArePure ==
    /\ []EmptyReads
    /\ [][(Store' # Store \/ AllSessions' # AllSessions)
          => \/ \E r \in Slots : Returns(r) /\ ~response'.logged
             \/ \E s \in Sessions : Deleted(s)]_vars

\* A request has read the pairs of a session with no turns and got the empty
\* sequence, while the other session has turns; only that one is listed.
C15_Witness ==
    \E r \in Slots :
        /\ req[r].pc = "relay"
        /\ req[r].pairs_ok
        /\ Len(req[r].messages) = 2
        /\ recorded[req[r].session_id] = <<>>
        /\ AllSessions = Sessions \ {req[r].session_id}

-----------------------------------------------------------------------------
(* C16 *)

\* The models registered for the chat capability in some registry.
ChatModels ==
    UNION {{ModelRegistries[i].chat[j] : j \in 1..Len(ModelRegistries[i].chat)}
             : i \in 1..Len(ModelRegistries)}

\* What the claim resolves a payload's model to under a registry: None is
\* NoModelAvailable.
ChatModelOrNone(model, models_map) ==
    IF model # None THEN model
    ELSE IF models_map.chat # <<>> THEN Some(models_map.chat[1])
    ELSE None

\* C16: an explicit model is used; without one the first model registered
\* for chat is, never a model of another capability; with neither the
\* request fails before the relay. So a request at the relay holds an
\* explicit model or a chat model.
C16_ChatModelResolved ==
    \A r \in Slots :
        req[r].pc = "relay" => req[r].model[1] \in ExplicitModels \cup ChatModels

\* The registries under which resolve_model gives what the claim says.
RegistriesResolvedAsClaimed ==
    {i \in 1..Len(ModelRegistries) :
        \A model \in {None} \cup {Some(m) : m \in ExplicitModels} :
           resolve_model(model, ModelRegistries[i])
             = {ChatModelOrNone(model, ModelRegistries[i])}}

\* A request without a model has gone on to the relay with a model that is
\* registered for embeddings only.
EmbeddingsModelResolved ==
    \E r \in Slots :
        /\ req[r].pc = "relay"
        /\ req[r].model # None
        /\ req[r].model[1] \notin ExplicitModels \cup ChatModels

-----------------------------------------------------------------------------
(* C17 *)

\* What the downstream call should carry: the server's key when it has one,
\* the caller's header otherwise. A key that is the empty string is read
\* either as a key or as no key.
ClaimedAuthorizations(api_key, inbound) ==
    {IF api_key # None THEN api_key ELSE inbound,
     authorization_header_else_inbound(api_key, inbound)}

\* C17: the downstream call carries the key of the acquired server when it
\* has one, and otherwise the caller's authorization header, verbatim.
C17_CredentialsForwarded ==
    response.sent # None =>
        response.sent[1].authorization \in
            ClaimedAuthorizations(response.sent[1].api_key,
                                  response.sent[1].inbound)

\* A server whose key is the empty string: the call went out with no
\* authorization although the caller supplied one.
EmptyKeyDropsInbound ==
    /\ response.sent # None
    /\ response.sent[1].api_key = Some(<<>>)
    /\ response.sent[1].inbound # None
    /\ response.sent[1].authorization = None

\* A non-empty key is sent whatever the caller supplied, and without a key
\* a header of visible ASCII is forwarded as it came.
KeyOrAsciiHeaderForwarded ==
    response.sent # None =>
        LET x == response.sent[1]
        IN  /\ (x.api_key # None /\ x.api_key[1] # <<>>)
                  => x.authorization = x.api_key
            /\ (x.api_key = None /\ x.inbound # None
                    /\ to_str(x.inbound[1]) # None)
                  => x.authorization = x.inbound


-----------------------------------------------------------------------------
(* C18 *)

\* The first 2k lines of 2k or 2k+1 lines, two by two.
PairsOfFirstLines(lines) ==
    [j \in 1..(Len(lines) \div 2) |->
        <<StripPrefix(lines[2 * j - 1], UserPrefix),
          StripPrefix(lines[2 * j], BotPrefix)>>]

Assembles(r) == req[r].pc = "idle" /\ req'[r].pc = "relay"

\* C18: in volatile mode history_pairs of 2k or 2k+1 stored lines succeeds
\* with the k pairs of the first 2k lines, and a request replays those.
C18_OddLengthDropsLast ==
    /\ [](~database =>
            \A s \in DOMAIN memory_fallback :
               Pairs(s) = {PairsOfFirstLines(memory_fallback[s])})
    /\ [][\A r \in Slots :
            (Assembles(r) /\ ~database) =>
               /\ req'[r].pairs_ok
               /\ req'[r].messages =
                    build_messages(
                       Some(PairsOfFirstLines(
                               LinesOf(memory_fallback, req'[r].session_id))),
                       req'[r].user_message)]_vars

\* A request was assembled from three stored lines: one pair is replayed
\* between the system prompt and the new message.
C18_Witness ==
    \E r \in Slots :
       /\ req[r].pc = "relay"
       /\ req[r].session_id \in DOMAIN memory_fallback
       /\ Len(memory_fallback[req[r].session_id]) = 3
       /\ Len(req[r].messages) = 4


-----------------------------------------------------------------------------
(* C19 *)

\* The concatenation over pairs of ["User: " + user, "Bot: " + bot].
RECURSIVE FlattenPairs(_)
FlattenPairs(pairs) ==
    IF pairs = <<>> THEN <<>>
    ELSE <<FormatUser(Head(pairs)[1]), FormatBot(Head(pairs)[2])>>
           \o FlattenPairs(Tail(pairs))

\* history_lines(s), when it succeeds.
Lines(s) ==
    get_conversation_history(database, chat_messages, memory_fallback, s)

\* C19: for every session, the lines history_lines returns are the
\* flattening of the pairs history_pairs returns, and the pairs are the
\* recorded texts, unchanged.
C19_LinesAreFlattenedPairs ==
    \A s \in Sessions :
       \A lines \in Lines(s), pairs \in Pairs(s) :
          /\ lines = FlattenPairs(pairs)
          /\ \A i \in 1..Len(pairs) :
                \E j \in 1..Len(recorded[s]) :
                   pairs[i] = <<recorded[s][j].user_message,
                                recorded[s][j].bot_reply>>

\* Two rows of one session carry the same timestamp and different texts: a
\* read of the lines and a read of the pairs may order them differently.
TiedRowsReadTwice ==
    /\ database
    /\ \E s \in Sessions :
         \E lines \in Lines(s), pairs \in Pairs(s) :
            /\ Len(pairs) = 2
            /\ lines # FlattenPairs(pairs)

\* Each way the rows may come back gives lines that are the flattening of
\* its pairs, the pairs of a volatile session are the pairs its lines
\* flatten, and every pair read is a recorded turn, unchanged.
EachReadFlattens ==
    \A s \in Sessions :
       /\ Lines(s) = {FlattenPairs(pairs) : pairs \in Pairs(s)}
       /\ Pairs(s) = {PairLoop(lines, 0, <<>>) : lines \in Lines(s)}
       /\ ~database => C19_LinesAreFlattenedPairs
       /\ \A pairs \in Pairs(s) : \A i \in 1..Len(pairs) :
             \E j \in 1..Len(recorded[s]) :
                pairs[i] = <<recorded[s][j].user_message,
                             recorded[s][j].bot_reply>>

\* Texts that are empty, that begin with a prefix, that are a prefix.
ArbitraryTexts ==
    {<<>>, <<"hi">>, <<UserPrefix>>, <<BotPrefix, "ok">>,
     <<UserPrefix, "hi">>, <<BotPrefix, UserPrefix>>}

\* The loop of get_session_pairs undoes the flattening, whatever the texts.
PairingInvertsFlattening ==
    \A u1, b1, u2, b2 \in ArbitraryTexts :
       /\ PairLoop(FlattenPairs(<<<<u1, b1>>, <<u2, b2>>>>), 0, <<>>)
             = <<<<u1, b1>>, <<u2, b2>>>>
       /\ PairLoop(FlattenPairs(<<<<u1, b1>>>>), 0, <<>>) = <<<<u1, b1>>>>


-----------------------------------------------------------------------------
(* C20 *)

StartsWith(line, prefix) == Len(line) >= 1 /\ line[1] = prefix

\* Lines as save_conversation leaves them: user line, bot line, and so on.
WellFormedLines(lines) ==
    /\ lines # <<>>
    /\ Len(lines) % 2 = 0
    /\ \A i \in 1..Len(lines) :
         StartsWith(lines[i], IF i % 2 = 1 THEN UserPrefix ELSE BotPrefix)

\* C20: every key of the in-memory map holds a non-empty, even number of
\* lines, a "User: " line and a "Bot: " line in turn, so that the loop of
\* history_pairs leaves no line unpaired.
C20_MapWellFormed ==
    \A s \in DOMAIN memory_fallback :
       /\ WellFormedLines(memory_fallback[s])
       /\ ~database =>
             \A pairs \in Pairs(s) :
                2 * Len(pairs) = Len(memory_fallback[s])

\* Two turns of one session are in the map.
C20_Witness ==
    /\ ~database
    /\ \E s \in DOMAIN memory_fallback : Len(memory_fallback[s]) >= 4

====
